---------------------------- MODULE Spec2Model ----------------------------
(***************************************************************************)
(* Model of generate_manifest.py: the portfolio assets manifest generator. *)
(*                                                                         *)
(* A string is a tuple of one-character strings ("sup2" stands for the     *)
(* single character U+00B2, SUPERSCRIPT TWO).  A filesystem node is a      *)
(* record [name, kind, entries]: kind is "file" or "dir", entries is the   *)
(* directory listing in the order iterdir() yields it.  A Python dict is a *)
(* tuple of <<key, value>> pairs in insertion order.                       *)
(***************************************************************************)
EXTENDS Integers, Sequences, FiniteSets, TLC

(***************************************************************************)
(* Characters and the str methods the program uses                         *)
(***************************************************************************)

\* The characters of the model in increasing code point order.
CodeOrder ==
    << ".", "0", "1", "2", "3", "4", "5", "6", "7", "8", "9",
       "A", "B", "C", "D", "E", "F", "G", "H", "I", "J", "K", "L", "M",
       "N", "O", "P", "Q", "R", "S", "T", "U", "V", "W", "X", "Y", "Z",
       "a", "b", "c", "d", "e", "f", "g", "h", "i", "j", "k", "l", "m",
       "n", "o", "p", "q", "r", "s", "t", "u", "v", "w", "x", "y", "z",
       "sup2" >>

\* ord(c), up to a monotone renumbering
Ord(c) == CHOOSE i \in 1..Len(CodeOrder) : CodeOrder[i] = c

AsciiDigits == << "0", "1", "2", "3", "4", "5", "6", "7", "8", "9" >>

UpperLetters ==
    << "A", "B", "C", "D", "E", "F", "G", "H", "I", "J", "K", "L", "M",
       "N", "O", "P", "Q", "R", "S", "T", "U", "V", "W", "X", "Y", "Z" >>

LowerLetters ==
    << "a", "b", "c", "d", "e", "f", "g", "h", "i", "j", "k", "l", "m",
       "n", "o", "p", "q", "r", "s", "t", "u", "v", "w", "x", "y", "z" >>

Range(s) == { s[i] : i \in 1..Len(s) }

\* str.isdigit for one character: true of the ASCII digits and of U+00B2
IsDigitChar(c) == c \in Range(AsciiDigits) \cup {"sup2"}

\* whether int() accepts the character as a decimal digit
IsDecimalChar(c) == c \in Range(AsciiDigits)

DigitValue(c) == (CHOOSE i \in 1..10 : AsciiDigits[i] = c) - 1

LowerChar(c) ==
    IF c \in Range(UpperLetters)
    THEN LowerLetters[CHOOSE i \in 1..26 : UpperLetters[i] = c]
    ELSE c

\* str.lower()
Lower(s) == [i \in 1..Len(s) |-> LowerChar(s[i])]

\* x.startswith('.')
StartsWithDot(s) == Len(s) > 0 /\ s[1] = "."

\* str.find('.') and str.rfind('.'), 1-based, 0 when there is no dot
FindDot(s) ==
    IF \E i \in 1..Len(s) : s[i] = "."
    THEN CHOOSE i \in 1..Len(s) : s[i] = "." /\ \A j \in 1..(i-1) : s[j] # "."
    ELSE 0

RFindDot(s) ==
    IF \E i \in 1..Len(s) : s[i] = "."
    THEN CHOOSE i \in 1..Len(s) : s[i] = "." /\ \A j \in (i+1)..Len(s) : s[j] # "."
    ELSE 0

\* x.split('.')[0]
SplitDotFirst(s) ==
    IF FindDot(s) = 0 THEN s ELSE SubSeq(s, 1, FindDot(s) - 1)

\* pathlib: i = name.rfind('.'); 0 < i < len(name) - 1  (0-based i)
HasSuffix(s) == RFindDot(s) > 1 /\ RFindDot(s) < Len(s)

\* Path.suffix
Suffix(s) == IF HasSuffix(s) THEN SubSeq(s, RFindDot(s), Len(s)) ELSE << >>

\* Path.stem
Stem(s) == IF HasSuffix(s) THEN SubSeq(s, 1, RFindDot(s) - 1) ELSE s

\* ''.join(filter(str.isdigit, s))
FilterDigits(s) == SelectSeq(s, IsDigitChar)

\* any(c.isdigit() for c in s)
AnyDigit(s) == \E i \in 1..Len(s) : IsDigitChar(s[i])

RECURSIVE DecimalValue(_)
DecimalValue(s) ==
    IF Len(s) = 0 THEN 0
    ELSE 10 * DecimalValue(SubSeq(s, 1, Len(s) - 1)) + DigitValue(s[Len(s)])

\* int(s): a record [ok, v]; ok is FALSE when int raises ValueError
IntOf(s) ==
    IF Len(s) > 0 /\ \A i \in 1..Len(s) : IsDecimalChar(s[i])
    THEN [ok |-> TRUE, v |-> DecimalValue(s)]
    ELSE [ok |-> FALSE, v |-> 0]

\* s < t for str: code point order, a proper prefix is smaller
RECURSIVE StrLess(_, _)
StrLess(s, t) ==
    IF Len(t) = 0 THEN FALSE
    ELSE IF Len(s) = 0 THEN TRUE
    ELSE IF s[1] # t[1] THEN Ord(s[1]) < Ord(t[1])
    ELSE StrLess(Tail(s), Tail(t))

\* x in list
InList(x, list) == \E i \in 1..Len(list) : list[i] = x

(***************************************************************************)
(* Configuration constants                                                 *)
(***************************************************************************)

S_projects == << "p", "r", "o", "j", "e", "c", "t", "s" >>
S_education == << "e", "d", "u", "c", "a", "t", "i", "o", "n" >>
S_experience == << "e", "x", "p", "e", "r", "i", "e", "n", "c", "e" >>
S_certifications ==
    << "c", "e", "r", "t", "i", "f", "i", "c", "a", "t", "i", "o", "n", "s" >>

S_screenshots == << "s", "c", "r", "e", "e", "n", "s", "h", "o", "t", "s" >>
S_videos == << "v", "i", "d", "e", "o", "s" >>
S_pdfs == << "p", "d", "f", "s" >>
S_installers == << "i", "n", "s", "t", "a", "l", "l", "e", "r", "s" >>
S_logo == << "l", "o", "g", "o" >>

X_png == << ".", "p", "n", "g" >>
X_jpg == << ".", "j", "p", "g" >>
X_jpeg == << ".", "j", "p", "e", "g" >>
X_gif == << ".", "g", "i", "f" >>
X_webp == << ".", "w", "e", "b", "p" >>
X_svg == << ".", "s", "v", "g" >>
X_mp4 == << ".", "m", "p", "4" >>
X_mkv == << ".", "m", "k", "v" >>
X_avi == << ".", "a", "v", "i" >>
X_mov == << ".", "m", "o", "v" >>
X_webm == << ".", "w", "e", "b", "m" >>
X_pdf == << ".", "p", "d", "f" >>
X_apk == << ".", "a", "p", "k" >>
X_exe == << ".", "e", "x", "e" >>
X_dmg == << ".", "d", "m", "g" >>
X_msi == << ".", "m", "s", "i" >>
X_deb == << ".", "d", "e", "b" >>
X_rpm == << ".", "r", "p", "m" >>

CATEGORIES == << S_projects, S_education, S_experience, S_certifications >>

\* the dict ASSET_TYPES, as its items() in insertion order
ASSET_TYPES ==
    << << S_screenshots, << X_png, X_jpg, X_jpeg, X_gif, X_webp >> >>,
       << S_videos, << X_mp4, X_mkv, X_avi, X_mov, X_webm >> >>,
       << S_pdfs, << X_pdf >> >>,
       << S_installers, << X_apk, X_exe, X_dmg, X_msi, X_deb, X_rpm >> >> >>

LOGO_EXTENSIONS == << X_png, X_jpg, X_jpeg, X_svg, X_webp >>

(***************************************************************************)
(* Filesystem nodes, Path operations, dict operations                      *)
(***************************************************************************)

File(name) == [name |-> name, kind |-> "file", entries |-> << >>]
Dir(name, entries) == [name |-> name, kind |-> "dir", entries |-> entries]

\* (parent / name).exists()
Exists(parent, name) == \E i \in 1..Len(parent.entries) : parent.entries[i].name = name

\* the node parent / name (when it exists)
Child(parent, name) ==
    parent.entries[CHOOSE i \in 1..Len(parent.entries) : parent.entries[i].name = name]

\* Path.is_file(), Path.is_dir()
IsFile(node) == node.kind = "file"
IsDir(node) == node.kind = "dir"

\* results of a call: returned a value, or raised
Returned(v) == [status |-> "ok", value |-> v]
Raised(e) == [status |-> e, value |-> << >>]

\* d.keys() and d[k] of a dict kept as a tuple of <<key, value>> pairs
Keys(d) == { d[i][1] : i \in 1..Len(d) }
Get(d, k) == d[CHOOSE i \in 1..Len(d) : d[i][1] = k][2]

\* d[k] = v: replaces the value of a key already present, else appends
DictSet(d, k, v) ==
    IF k \in Keys(d)
    THEN [i \in 1..Len(d) |-> IF d[i][1] = k THEN << k, v >> ELSE d[i]]
    ELSE Append(d, << k, v >>)

\* the values stored in a SlugAssets dict: a str (logo) or a list of str
StrValue(name) == [isList |-> FALSE, v |-> << name >>]
ListValue(names) == [isList |-> TRUE, v |-> names]

(***************************************************************************)
(* get_files_in_directory                                                  *)
(***************************************************************************)

\* mutant: the loop does not test is_file()
MatchesAnyEntry(file, extensions) == InList(Lower(Suffix(file.name)), extensions)

\* the condition of the collecting loop
Matches(file, extensions) == IsFile(file) /\ InList(Lower(Suffix(file.name)), extensions)

\* the list files after the loop over directory.iterdir()
RECURSIVE CollectFiles(_, _)
CollectFiles(entries, extensions) ==
    IF Len(entries) = 0 THEN << >>
    ELSE IF Matches(Head(entries), extensions)
         THEN << Head(entries).name >> \o CollectFiles(Tail(entries), extensions)
         ELSE CollectFiles(Tail(entries), extensions)

\* mutant: no numeric key, the names are sorted as strings
SortKeyLexical(x) == [ok |-> TRUE, v |-> 0]

\* the first component of the sort key: [ok, v], ok FALSE when int() raises
SortKey(x) ==
    IF AnyDigit(SplitDotFirst(x))
    THEN IntOf(FilterDigits(SplitDotFirst(x)))
    ELSE [ok |-> TRUE, v |-> 0]

\* (key(a), a) < (key(b), b) as Python compares tuples
KeyLess(a, b) ==
    \/ SortKey(a).v < SortKey(b).v
    \/ SortKey(a).v = SortKey(b).v /\ StrLess(a, b)

\* stable insertion of x into the sorted list
RECURSIVE Insert(_, _)
Insert(x, sorted) ==
    IF Len(sorted) = 0 THEN << x >>
    ELSE IF KeyLess(x, Head(sorted)) THEN << x >> \o sorted
    ELSE << Head(sorted) >> \o Insert(x, Tail(sorted))

RECURSIVE SortedList(_)
SortedList(files) ==
    IF Len(files) = 0 THEN << >>
    ELSE Insert(files[Len(files)], SortedList(SubSeq(files, 1, Len(files) - 1)))

\* sorted(files, key=...): every key is computed first, and int() may raise
Sorted(files) ==
    IF \E i \in 1..Len(files) : ~SortKey(files[i]).ok
    THEN Raised("ValueError")
    ELSE Returned(SortedList(files))

\* get_files_in_directory(parent / name, extensions)
GetFilesInDirectory(parent, name, extensions) ==
    IF ~Exists(parent, name) THEN Returned(<< >>)
    ELSE IF ~IsDir(Child(parent, name)) THEN Raised("NotADirectoryError")
    ELSE Sorted(CollectFiles(Child(parent, name).entries, extensions))

(***************************************************************************)
(* scan_slug_directory                                                     *)
(***************************************************************************)

IsLogo(file) ==
    /\ IsFile(file)
    /\ Lower(Stem(file.name)) = S_logo
    /\ InList(Lower(Suffix(file.name)), LOGO_EXTENSIONS)

\* mutant: the logo loop without its break, the last candidate wins
RECURSIVE ScanLogoNoBreak(_, _)
ScanLogoNoBreak(entries, assets) ==
    IF Len(entries) = 0 THEN assets
    ELSE IF IsLogo(Head(entries))
         THEN ScanLogoNoBreak(Tail(entries),
                  DictSet(assets, S_logo, StrValue(Head(entries).name)))
         ELSE ScanLogoNoBreak(Tail(entries), assets)

\* the logo loop: assets after it
RECURSIVE ScanLogo(_, _)
ScanLogo(entries, assets) ==
    IF Len(entries) = 0 THEN assets
    ELSE IF IsLogo(Head(entries))
         THEN DictSet(assets, S_logo, StrValue(Head(entries).name))
         ELSE ScanLogo(Tail(entries), assets)

\* the loop over ASSET_TYPES.items() from its i-th item on
RECURSIVE ScanAssetTypes(_, _, _)
ScanAssetTypes(slug, i, assets) ==
    IF i > Len(ASSET_TYPES) THEN Returned(assets)
    ELSE LET files == GetFilesInDirectory(slug, ASSET_TYPES[i][1], ASSET_TYPES[i][2])
         IN  IF files.status # "ok" THEN Raised(files.status)
             ELSE IF Len(files.value) > 0
                  THEN ScanAssetTypes(slug, i + 1,
                           DictSet(assets, ASSET_TYPES[i][1], ListValue(files.value)))
                  ELSE ScanAssetTypes(slug, i + 1, assets)

ScanSlugDirectory(slug) == ScanAssetTypes(slug, 1, ScanLogo(slug.entries, << >>))

(***************************************************************************)
(* generate_manifest: the body of the loop over CATEGORIES                 *)
(***************************************************************************)

\* mutant: the loop records a slug whether or not it has assets
RECURSIVE ScanSlugsKeepEmpty(_, _)
ScanSlugsKeepEmpty(entries, category_data) ==
    IF Len(entries) = 0 THEN Returned(category_data)
    ELSE IF IsDir(Head(entries)) /\ ~StartsWithDot(Head(entries).name)
         THEN LET slug_assets == ScanSlugDirectory(Head(entries))
              IN  IF slug_assets.status # "ok" THEN Raised(slug_assets.status)
                  ELSE ScanSlugsKeepEmpty(Tail(entries),
                           DictSet(category_data, Head(entries).name, slug_assets.value))
         ELSE ScanSlugsKeepEmpty(Tail(entries), category_data)

\* the loop over category_path.iterdir(): category_data after it, or raised
RECURSIVE ScanSlugs(_, _)
ScanSlugs(entries, category_data) ==
    IF Len(entries) = 0 THEN Returned(category_data)
    ELSE IF IsDir(Head(entries)) /\ ~StartsWithDot(Head(entries).name)
         THEN LET slug_assets == ScanSlugDirectory(Head(entries))
              IN  IF slug_assets.status # "ok" THEN Raised(slug_assets.status)
                  ELSE IF Len(slug_assets.value) > 0
                       THEN ScanSlugs(Tail(entries),
                                DictSet(category_data, Head(entries).name, slug_assets.value))
                       ELSE ScanSlugs(Tail(entries), category_data)
         ELSE ScanSlugs(Tail(entries), category_data)

\* one iteration of the loop: the value stored in manifest[category], or raised
ScanCategory(repo_root, category) ==
    IF ~Exists(repo_root, category) THEN Returned(<< >>)
    ELSE IF ~IsDir(Child(repo_root, category)) THEN Raised("NotADirectoryError")
    ELSE ScanSlugs(Child(repo_root, category).entries, << >>)

(***************************************************************************)
(* State                                                                   *)
(***************************************************************************)

VARIABLES
    fs,              \* the directory tree the running code reads (a Dir node)
    arg,             \* index in ASSET_TYPES a direct call is made with (0: none)
    ret,             \* what a direct call returned or raised
    pc,              \* position of the running code
    manifest,        \* the dict manifest of generate_manifest / main
    category_index,  \* position of the loop over CATEGORIES
    total_assets,    \* main's total_assets
    total_projects,  \* the project count main prints
    error,           \* the exception that ended the run ("" when none)
    manifestFile,    \* content of repo_root/manifest.json
    fileAtStart,     \* history: manifestFile when the current run started
    lastSaved,       \* history: what the last completed run left in manifestFile
    treeChanged,     \* history: the tree changed since the last completed run
    runs             \* number of runs of main started

vars == << fs, arg, ret, pc, manifest, category_index, total_assets, total_projects,
           error, manifestFile, fileAtStart, lastSaved, treeChanged, runs >>

mainVars == << manifest, category_index, total_assets, total_projects, error,
               manifestFile, fileAtStart, lastSaved, treeChanged, runs >>

\* a manifest.json that does not exist
NoFile == << [t |-> "absent", s |-> << >>] >>

MainIdle ==
    /\ manifest = << >>
    /\ category_index = 0
    /\ total_assets = 0
    /\ total_projects = 0
    /\ error = ""
    /\ manifestFile = NoFile
    /\ fileAtStart = NoFile
    /\ lastSaved = NoFile
    /\ treeChanged = FALSE
    /\ runs = 0

(***************************************************************************)
(* Bounds and input universes                                              *)
(***************************************************************************)

\* longest directory listing drawn for a direct call
MaxFiles == 3

N_slug == << "f", "o", "o" >>

\* entries an asset-type directory may hold
FileEntries ==
    { File(<< "2", ".", "p", "n", "g" >>),
      File(<< "1", "0", ".", "p", "n", "g" >>),
      File(<< "0", "2", ".", "p", "n", "g" >>),
      File(<< "a", "5", ".", "p", "n", "g" >>),
      File(<< "a", "1", "b", "2", ".", "p", "n", "g" >>),
      File(<< "v", "1", ".", "2", ".", "p", "n", "g" >>),
      File(<< "b", ".", "P", "N", "G" >>),
      File(<< "sup2", ".", "p", "n", "g" >>),
      File(<< "2", ".", "t", "x", "t" >>),
      File(<< ".", "p", "n", "g" >>),
      File(<< "1", ".", "m", "p", "4" >>),
      Dir(<< "7", ".", "p", "n", "g" >>, << File(<< "9", ".", "p", "n", "g" >>) >>) }

\* listings of at most n entries with distinct names, in every order
Listings(universe, n) ==
    UNION { { l \in [1..k -> universe] :
                \A i, j \in 1..k : i # j => l[i].name # l[j].name } : k \in 0..n }

(***************************************************************************)
(* Direct calls of get_files_in_directory                                  *)
(***************************************************************************)

InitFiles ==
    /\ arg \in 1..Len(ASSET_TYPES)
    /\ \/ fs = Dir(N_slug, << >>)
       \/ fs = Dir(N_slug, << File(ASSET_TYPES[arg][1]) >>)
       \/ \E l \in Listings(FileEntries, MaxFiles) :
              fs = Dir(N_slug, << Dir(ASSET_TYPES[arg][1], l) >>)
    /\ ret = Returned(<< >>)
    /\ pc = "call"
    /\ MainIdle

CallGetFiles ==
    /\ pc = "call"
    /\ ret' = GetFilesInDirectory(fs, ASSET_TYPES[arg][1], ASSET_TYPES[arg][2])
    /\ pc' = IF ret'.status = "ok" THEN "returned" ELSE "raised"
    /\ UNCHANGED << fs, arg, mainVars >>

NextFiles == CallGetFiles

SpecFiles == InitFiles /\ [][NextFiles]_vars

(***************************************************************************)
(* Properties of get_files_in_directory (checked under SpecFiles)          *)
(***************************************************************************)

\* the asset-type directory the call reads, its listing, and the names of
\* the entries the call is to collect
CalledDirIsDir ==
    Exists(fs, ASSET_TYPES[arg][1]) /\ IsDir(Child(fs, ASSET_TYPES[arg][1]))

CalledListing == Child(fs, ASSET_TYPES[arg][1]).entries

CalledMatching ==
    { CalledListing[i].name : i \in
        { k \in 1..Len(CalledListing) : Matches(CalledListing[k], ASSET_TYPES[arg][2]) } }

\* a name {n}.ext where n is a non-empty run of decimal digits
NumericName(x) ==
    /\ HasSuffix(x)
    /\ \A i \in 1..Len(Stem(x)) : IsDecimalChar(Stem(x)[i])

N_2png == << "2", ".", "p", "n", "g" >>
N_10png == << "1", "0", ".", "p", "n", "g" >>

\* C4: when every matching file of the directory is named {n}.ext with n a
\* run of decimal digits, the call returns a list that is in non-decreasing
\* order of the numeric value of n, whatever the enumeration order.
C4_NumericOrder ==
    (pc # "call" /\ CalledDirIsDir /\ \A x \in CalledMatching : NumericName(x))
        => /\ pc = "returned"
           /\ \A i, j \in 1..Len(ret.value) :
                  i < j => DecimalValue(Stem(ret.value[i])) <= DecimalValue(Stem(ret.value[j]))

\* 10.png is enumerated first and 2.png is returned before it
C4_Witness ==
    /\ pc = "returned"
    /\ CalledDirIsDir
    /\ \A x \in CalledMatching : NumericName(x)
    /\ Len(CalledListing) >= 2
    /\ CalledListing[1].name = N_10png
    /\ Len(ret.value) >= 2
    /\ \E i \in 1..(Len(ret.value) - 1) :
           ret.value[i] = N_2png /\ ret.value[i + 1] = N_10png

\* the key the claim C5 describes: the numeric value of the first run of
\* decimal digits of the name taken before its extension, 0 without digits
FirstDigitRun(s) ==
    IF \E i \in 1..Len(s) : IsDecimalChar(s[i])
    THEN LET b == CHOOSE i \in 1..Len(s) :
                      IsDecimalChar(s[i]) /\ \A j \in 1..(i-1) : ~IsDecimalChar(s[j])
             e == CHOOSE i \in b..Len(s) :
                      /\ \A j \in b..i : IsDecimalChar(s[j])
                      /\ (i = Len(s) \/ ~IsDecimalChar(s[i + 1]))
         IN  SubSeq(s, b, e)
    ELSE << >>

LeadingRunKey(x) == DecimalValue(FirstDigitRun(Stem(x)))

LeadingRunLess(a, b) ==
    \/ LeadingRunKey(a) < LeadingRunKey(b)
    \/ LeadingRunKey(a) = LeadingRunKey(b) /\ StrLess(a, b)

C8_KeyNeverRaises == pc = "raised" => ret.status # "ValueError"

(***************************************************************************)
(* Direct calls of scan_slug_directory                                     *)
(***************************************************************************)

\* longest slug directory listing drawn for a direct call
MaxSlugEntries == 3

N_logo_png == << "l", "o", "g", "o", ".", "p", "n", "g" >>
N_logo_svg == << "l", "o", "g", "o", ".", "s", "v", "g" >>
N_LOGO_JPG == << "L", "O", "G", "O", ".", "J", "P", "G" >>
N_1png == << "1", ".", "p", "n", "g" >>
N_1mp4 == << "1", ".", "m", "p", "4" >>

\* entries a slug directory may hold
SlugEntries ==
    { File(N_logo_png),
      File(N_logo_svg),
      File(N_LOGO_JPG),
      File(<< "l", "o", "g", "o", ".", "g", "i", "f" >>),
      File(<< "l", "o", "g", "o", ".", "x", ".", "p", "n", "g" >>),
      Dir(<< "l", "o", "g", "o", ".", "w", "e", "b", "p" >>, << >>),
      File(N_1png),
      Dir(S_screenshots,
          << File(N_10png), File(N_2png),
             Dir(<< "7", ".", "p", "n", "g" >>, << File(<< "9", ".", "p", "n", "g" >>) >>),
             File(N_1mp4) >>),
      Dir(S_screenshots, << >>),
      File(S_screenshots),
      Dir(S_screenshots, << File(<< "sup2", ".", "p", "n", "g" >>) >>),
      Dir(S_videos, << File(N_1mp4), File(N_2png) >>),
      Dir(S_pdfs, << File(<< "b", ".", "P", "D", "F" >>), File(<< "a", ".", "p", "d", "f" >>) >>),
      Dir(S_installers, << File(<< "2", ".", "t", "x", "t" >>) >>),
      Dir(S_installers, << File(<< "x", ".", "a", "p", "k" >>) >>),
      Dir(<< "m", "i", "s", "c" >>, << File(<< "3", ".", "p", "n", "g" >>) >>) }

InitSlug ==
    /\ \E l \in Listings(SlugEntries, MaxSlugEntries) : fs = Dir(N_slug, l)
    /\ arg = 0
    /\ ret = Returned(<< >>)
    /\ pc = "call"
    /\ MainIdle

CallScanSlug ==
    /\ pc = "call"
    /\ ret' = ScanSlugDirectory(fs)
    /\ pc' = IF ret'.status = "ok" THEN "returned" ELSE "raised"
    /\ UNCHANGED << fs, arg, mainVars >>

NextSlug == CallScanSlug

SpecSlug == InitSlug /\ [][NextSlug]_vars

(***************************************************************************)
(* Properties of scan_slug_directory (checked under SpecSlug)              *)
(***************************************************************************)

\* names of the regular files directly in slug/T (T the i-th asset type)
\* whose lowercased extension is registered for T
TypeMatching(slug, i) ==
    IF Exists(slug, ASSET_TYPES[i][1]) /\ IsDir(Child(slug, ASSET_TYPES[i][1]))
    THEN LET l == Child(slug, ASSET_TYPES[i][1]).entries
         IN  { l[k].name : k \in { n \in 1..Len(l) :
                   /\ l[n].kind = "file"
                   /\ Lower(Suffix(l[n].name)) \in Range(ASSET_TYPES[i][2]) } }
    ELSE { }

\* what C3 says of one returned SlugAssets
TypeListsExact(slug, assets) ==
    \A i \in 1..Len(ASSET_TYPES) :
        /\ ASSET_TYPES[i][1] \in Keys(assets) <=> TypeMatching(slug, i) # { }
        /\ ASSET_TYPES[i][1] \in Keys(assets) =>
              /\ Get(assets, ASSET_TYPES[i][1]).isList
              /\ Range(Get(assets, ASSET_TYPES[i][1]).v) = TypeMatching(slug, i)
              /\ Len(Get(assets, ASSET_TYPES[i][1]).v) = Cardinality(TypeMatching(slug, i))

\* C3: for every asset type T the list stored under key T is exactly the
\* set of names of the regular files directly in slug/T whose lowercased
\* extension is registered for T, without duplicates; key T is present iff
\* that set is not empty; a missing slug/T gives no key and no error.
C3_TypeLists ==
    /\ pc = "returned" => TypeListsExact(fs, ret.value)
    /\ pc = "raised" => \E i \in 1..Len(ASSET_TYPES) : Exists(fs, ASSET_TYPES[i][1])

\* screenshots holds files, a sub-directory and a video; videos is missing
C3_Witness ==
    /\ pc = "returned"
    /\ S_screenshots \in Keys(ret.value)
    /\ Get(ret.value, S_screenshots).v = << N_2png, N_10png >>
    /\ Len(Child(fs, S_screenshots).entries) > 2
    /\ ~Exists(fs, S_videos)
    /\ S_videos \notin Keys(ret.value)
    /\ Exists(fs, N_1png)

\* positions of the logo candidates in the slug directory's listing
LogoCandidates(slug) ==
    { i \in 1..Len(slug.entries) :
        /\ slug.entries[i].kind = "file"
        /\ Lower(Stem(slug.entries[i].name)) = S_logo
        /\ Lower(Suffix(slug.entries[i].name)) \in Range(LOGO_EXTENSIONS) }

FirstOf(S) == CHOOSE i \in S : \A j \in S : i <= j

\* what C6 says of one returned SlugAssets
LogoIsFirstCandidate(slug, assets) ==
    /\ S_logo \in Keys(assets) <=> LogoCandidates(slug) # { }
    /\ S_logo \in Keys(assets) =>
          /\ ~Get(assets, S_logo).isList
          /\ Get(assets, S_logo).v = << slug.entries[FirstOf(LogoCandidates(slug))].name >>

\* C6: key logo is set iff the slug root holds a regular file whose stem is
\* logo (case-insensitively) with a logo extension; the value is the single
\* name of the first such entry in enumeration order.
C6_Logo == pc = "returned" => LogoIsFirstCandidate(fs, ret.value)

\* two candidates: the first enumerated one is chosen, the later one not
C6_Witness ==
    /\ pc = "returned"
    /\ Cardinality(LogoCandidates(fs)) >= 2
    /\ fs.entries[1].name = N_logo_svg
    /\ Get(ret.value, S_logo).v = << N_logo_svg >>
    /\ Exists(fs, N_logo_png)

(***************************************************************************)
(* generate_manifest as a whole, and main                                  *)
(***************************************************************************)

\* mutant: the branch for a missing category directory forgets its key
ManifestAfterCategorySkipMissing(m, repo_root, category) ==
    IF ~Exists(repo_root, category) THEN m
    ELSE DictSet(m, category, ScanCategory(repo_root, category).value)

\* manifest after the loop body for one category that did not raise
ManifestAfterCategory(m, repo_root, category) ==
    DictSet(m, category, ScanCategory(repo_root, category).value)

\* generate_manifest(): the loop over CATEGORIES from its i-th item on
RECURSIVE GenerateFrom(_, _, _)
GenerateFrom(repo_root, i, m) ==
    IF i > Len(CATEGORIES) THEN Returned(m)
    ELSE IF ScanCategory(repo_root, CATEGORIES[i]).status # "ok"
         THEN Raised(ScanCategory(repo_root, CATEGORIES[i]).status)
         ELSE GenerateFrom(repo_root, i + 1, ManifestAfterCategory(m, repo_root, CATEGORIES[i]))

GenerateManifest(repo_root) == GenerateFrom(repo_root, 1, << >>)

\* mutant: an exception of the scan is swallowed and the loop goes on
AfterCategoryIgnoreError(status, i) ==
    IF i < Len(CATEGORIES) THEN "scan" ELSE "generated"

\* where main goes after one iteration of generate_manifest's loop: an
\* exception is caught nowhere and ends the run
AfterCategory(status, i) ==
    IF status # "ok" THEN "failed"
    ELSE IF i < Len(CATEGORIES) THEN "scan"
    ELSE "generated"

RECURSIVE SumSeq(_)
SumSeq(s) == IF Len(s) = 0 THEN 0 ELSE Head(s) + SumSeq(Tail(s))

\* mutant: len(files) without the isinstance test
CountValueLen(files) == IF files.isList THEN Len(files.v) ELSE Len(files.v[1])

\* len(files) if isinstance(files, list) else 1
CountValue(files) == IF files.isList THEN Len(files.v) ELSE 1

\* the sum over category.values(), slug.values(), files
SlugTotal(slug) == SumSeq([k \in 1..Len(slug) |-> CountValue(slug[k][2])])
CategoryTotal(category) == SumSeq([j \in 1..Len(category) |-> SlugTotal(category[j][2])])
TotalAssets(m) == SumSeq([i \in 1..Len(m) |-> CategoryTotal(m[i][2])])

\* sum(len(cat) for cat in manifest.values())
TotalProjects(m) == SumSeq([i \in 1..Len(m) |-> Len(m[i][2])])

(***************************************************************************)
(* json.dump(manifest, f, indent=2, ensure_ascii=False): the document as   *)
(* its tokens.  Strings are emitted character for character; the white     *)
(* space of the indentation is determined by the tokens and left out.      *)
(***************************************************************************)

Tok(t) == [t |-> t, s |-> << >>]
StrTok(s) == [t |-> "string", s |-> s]

RECURSIVE DumpStrings(_)
DumpStrings(names) ==
    IF Len(names) = 0 THEN << >>
    ELSE << StrTok(Head(names)) >>
         \o (IF Len(names) > 1 THEN << Tok(",") >> ELSE << >>)
         \o DumpStrings(Tail(names))

DumpValue(files) ==
    IF files.isList THEN << Tok("[") >> \o DumpStrings(files.v) \o << Tok("]") >>
    ELSE << StrTok(files.v[1]) >>

RECURSIVE DumpAssetItems(_)
DumpAssetItems(d) ==
    IF Len(d) = 0 THEN << >>
    ELSE << StrTok(Head(d)[1]), Tok(":") >> \o DumpValue(Head(d)[2])
         \o (IF Len(d) > 1 THEN << Tok(",") >> ELSE << >>)
         \o DumpAssetItems(Tail(d))

RECURSIVE DumpSlugItems(_)
DumpSlugItems(d) ==
    IF Len(d) = 0 THEN << >>
    ELSE << StrTok(Head(d)[1]), Tok(":"), Tok("{") >> \o DumpAssetItems(Head(d)[2])
         \o << Tok("}") >>
         \o (IF Len(d) > 1 THEN << Tok(",") >> ELSE << >>)
         \o DumpSlugItems(Tail(d))

RECURSIVE DumpCategoryItems(_)
DumpCategoryItems(d) ==
    IF Len(d) = 0 THEN << >>
    ELSE << StrTok(Head(d)[1]), Tok(":"), Tok("{") >> \o DumpSlugItems(Head(d)[2])
         \o << Tok("}") >>
         \o (IF Len(d) > 1 THEN << Tok(",") >> ELSE << >>)
         \o DumpCategoryItems(Tail(d))

JsonDump(m) == << Tok("{") >> \o DumpCategoryItems(m) \o << Tok("}") >>

\* mutant: the file is opened in mode 'a'
OpenAppendDump(old, m) == IF old[1].t = "absent" THEN JsonDump(m) ELSE old \o JsonDump(m)

\* with open(manifest_path, 'w') as f: json.dump(manifest, f, ...)
\* mode 'w' creates the file or truncates it
OpenWriteDump(old, m) == JsonDump(m)

(***************************************************************************)
(* Runs of main                                                            *)
(***************************************************************************)

\* number of runs of main in one behaviour
MaxRuns == 2

N_repo == << "r", "e", "p", "o" >>
N_bar == << "b", "a", "r" >>
N_baz == << "b", "a", "z" >>
N_hidden == << ".", "t", "m", "p" >>
N_misc == << "m", "i", "s", "c" >>
N_2jpg == << "2", ".", "j", "p", "g" >>

\* a slug with a logo and two screenshots
SlugFoo ==
    Dir(N_slug, << Dir(S_screenshots, << File(N_2jpg), File(N_1png) >>), File(N_logo_png) >>)

\* what repo_root/category may be: nothing, a regular file, or a directory
CategoryTrees(category) ==
    { << >>,
      << File(category) >>,
      << Dir(category, << >>) >>,
      << Dir(category, << SlugFoo >>) >>,
      << Dir(category,
             << Dir(N_hidden, << File(N_logo_png) >>),
                Dir(N_bar, << File(<< "2", ".", "t", "x", "t" >>), Dir(S_pdfs, << >>) >>),
                File(N_1png),
                Dir(N_baz, << Dir(S_videos, << File(N_1mp4) >>), File(N_logo_svg),
                              File(N_LOGO_JPG) >>) >>) >> }

\* category directories whose scan raises below the category level
FailingTrees(category) ==
    { << Dir(category, << SlugFoo, Dir(N_bar, << File(S_screenshots) >>) >>) >>,
      << Dir(category, << Dir(N_bar, << Dir(S_screenshots,
                              << File(<< "sup2", ".", "p", "n", "g" >>) >>) >>) >>) >> }

\* a directory of the repository that is no category
MiscDir == Dir(N_misc, << SlugFoo >>)

RepoTrees ==
    { Dir(N_repo, << MiscDir >> \o a \o b \o c \o d) :
        a \in CategoryTrees(CATEGORIES[1]) \cup FailingTrees(CATEGORIES[1]),
        b \in CategoryTrees(CATEGORIES[2]),
        c \in CategoryTrees(CATEGORIES[3]),
        d \in CategoryTrees(CATEGORIES[4]) }

\* a manifest.json left by something else
StaleFile ==
    JsonDump(<< << S_projects,
                   << << N_bar, << << S_logo, StrValue(N_logo_png) >> >> >> >> >> >>)

Init ==
    /\ fs \in RepoTrees
    /\ arg = 0
    /\ ret = Returned(<< >>)
    /\ pc = "idle"
    /\ manifest = << >>
    /\ category_index = 0
    /\ total_assets = 0
    /\ total_projects = 0
    /\ error = ""
    /\ manifestFile \in { NoFile, StaleFile }
    /\ fileAtStart = manifestFile
    /\ lastSaved = NoFile
    /\ treeChanged = FALSE
    /\ runs = 0

\* main() is entered: generate_manifest() starts with manifest = {}
StartRun ==
    /\ pc \in { "idle", "done", "failed" }
    /\ runs < MaxRuns
    /\ runs' = runs + 1
    /\ pc' = "scan"
    /\ manifest' = << >>
    /\ category_index' = 1
    /\ total_assets' = 0
    /\ total_projects' = 0
    /\ error' = ""
    /\ fileAtStart' = manifestFile
    /\ lastSaved' = IF treeChanged THEN NoFile
                    ELSE IF pc = "done" THEN manifestFile ELSE lastSaved
    /\ treeChanged' = FALSE
    /\ UNCHANGED << fs, arg, ret, manifestFile >>

\* one iteration of the loop over CATEGORIES
ScanNextCategory ==
    /\ pc = "scan"
    /\ LET category == CATEGORIES[category_index]
           status == ScanCategory(fs, category).status
       IN  /\ pc' = AfterCategory(status, category_index)
           /\ IF status = "ok"
              THEN /\ manifest' = ManifestAfterCategory(manifest, fs, category)
                   /\ category_index' = category_index + 1
                   /\ error' = error
              ELSE /\ error' = status
                   /\ UNCHANGED << manifest, category_index >>
    /\ UNCHANGED << fs, arg, ret, total_assets, total_projects, manifestFile,
                    fileAtStart, lastSaved, treeChanged, runs >>

\* generate_manifest has returned: main counts the assets and the projects
CountAssets ==
    /\ pc = "generated"
    /\ total_assets' = TotalAssets(manifest)
    /\ total_projects' = TotalProjects(manifest)
    /\ pc' = "counted"
    /\ UNCHANGED << fs, arg, ret, manifest, category_index, error, manifestFile,
                    fileAtStart, lastSaved, treeChanged, runs >>

\* main writes manifest.json and prints the summary
SaveManifest ==
    /\ pc = "counted"
    /\ manifestFile' = OpenWriteDump(manifestFile, manifest)
    /\ pc' = "done"
    /\ UNCHANGED << fs, arg, ret, manifest, category_index, total_assets,
                    total_projects, error, fileAtStart, lastSaved, treeChanged, runs >>

\* between two runs somebody removes a category directory
RemoveCategory ==
    /\ pc \in { "done", "failed" }
    /\ runs < MaxRuns
    /\ \E i \in 1..Len(CATEGORIES) :
          /\ Exists(fs, CATEGORIES[i])
          /\ fs' = [fs EXCEPT !.entries =
                        SelectSeq(fs.entries, LAMBDA e : e.name # CATEGORIES[i])]
    /\ treeChanged' = TRUE
    /\ UNCHANGED << arg, ret, pc, manifest, category_index, total_assets, total_projects,
                    error, manifestFile, fileAtStart, lastSaved, runs >>

Next ==
    \/ StartRun
    \/ ScanNextCategory
    \/ CountAssets
    \/ SaveManifest
    \/ RemoveCategory

Spec == Init /\ [][Next]_vars

(***************************************************************************)
(* Properties of generate_manifest and main (checked under Spec)           *)
(***************************************************************************)

\* generate_manifest has returned in the current run
ManifestBuilt == pc \in { "generated", "counted", "done" }

\* the tree is the one the current run scanned
TreeAsScanned == ~treeChanged

KeyList(d) == [i \in 1..Len(d) |-> d[i][1]]

\* repo_root/category is missing, or a directory without entries
AbsentOrEmpty(category) ==
    \/ ~Exists(fs, category)
    \/ IsDir(Child(fs, category)) /\ Len(Child(fs, category).entries) = 0

\* C1: whenever generate_manifest returns, the keys of the manifest are
\* exactly projects, education, experience, certifications (no other
\* directory of the repository is a key), and a category whose directory is
\* absent or has no entries is mapped to the empty mapping.
C1_CategoryKeys ==
    (ManifestBuilt /\ TreeAsScanned) =>
        /\ KeyList(manifest) = CATEGORIES
        /\ \A i \in 1..Len(CATEGORIES) :
               AbsentOrEmpty(CATEGORIES[i]) => Get(manifest, CATEGORIES[i]) = << >>

\* a non-category directory with assets, an absent and an empty category
C1_Witness ==
    /\ pc = "done"
    /\ TreeAsScanned
    /\ Exists(fs, N_misc)
    /\ ~Exists(fs, S_projects)
    /\ Exists(fs, S_education)
    /\ AbsentOrEmpty(S_education)
    /\ Len(Get(manifest, S_experience)) > 0

\* the entry holds at least one asset: a logo file in its root, or a
\* matching regular file in one of its asset-type directories
HasAsset(entry) ==
    \/ LogoCandidates(entry) # { }
    \/ \E i \in 1..Len(ASSET_TYPES) : TypeMatching(entry, i) # { }

\* what C2 says of one category directory and its CategoryData
SlugKeysExact(dir, category_data) ==
    /\ \A k \in 1..Len(dir.entries) :
           dir.entries[k].name \in Keys(category_data)
               <=> /\ dir.entries[k].kind = "dir"
                   /\ dir.entries[k].name[1] # "."
                   /\ HasAsset(dir.entries[k])
    /\ \A j \in 1..Len(category_data) : Len(category_data[j][2]) > 0

\* C2: an entry of a category directory is a key of the category's data iff
\* it is a directory, its name does not start with '.', and it has at least
\* one asset; no slug maps to an empty SlugAssets.
C2_SlugKeys ==
    (ManifestBuilt /\ TreeAsScanned) =>
        \A i \in 1..Len(CATEGORIES) :
            (Exists(fs, CATEGORIES[i]) /\ IsDir(Child(fs, CATEGORIES[i])))
                => SlugKeysExact(Child(fs, CATEGORIES[i]), Get(manifest, CATEGORIES[i]))

\* a hidden directory with a logo, a slug without assets, a regular file
\* and a slug with assets in one category: only the last one is a key
C2_Witness ==
    /\ pc = "done"
    /\ TreeAsScanned
    /\ Exists(fs, S_education)
    /\ IsDir(Child(fs, S_education))
    /\ Exists(Child(fs, S_education), N_hidden)
    /\ Exists(Child(fs, S_education), N_bar)
    /\ Exists(Child(fs, S_education), N_1png)
    /\ Keys(Get(manifest, S_education)) = { N_baz }

\* the files the manifest names: (category, slug, key, filename)
NamedFiles(m) ==
    UNION { UNION { UNION { { << m[i][1], m[i][2][j][1], m[i][2][j][2][k][1], n >> :
                                n \in Range(m[i][2][j][2][k][2].v) } :
                            k \in 1..Len(m[i][2][j][2]) } :
                    j \in 1..Len(m[i][2]) } :
            i \in 1..Len(m) }

NamedSlugs(m) ==
    UNION { { << m[i][1], m[i][2][j][1] >> : j \in 1..Len(m[i][2]) } : i \in 1..Len(m) }

\* C7: the total asset count main reports is the number of distinct files
\* named in the manifest (list length per asset-type key, 1 per logo), and
\* the project count is the number of slug keys over the four categories.
C7_Totals ==
    pc \in { "counted", "done" } =>
        /\ total_assets = Cardinality(NamedFiles(manifest))
        /\ total_projects = Cardinality(NamedSlugs(manifest))

\* one slug with a logo and two screenshots: 3 assets across 1 project
C7_Witness ==
    /\ pc = "done"
    /\ total_assets = 3
    /\ total_projects = 1
    /\ Keys(Get(manifest, S_projects)) = { N_slug }
    /\ Keys(Get(Get(manifest, S_projects), N_slug)) = { S_logo, S_screenshots }

\* C9: after a run of main that completes, manifest.json holds the
\* serialization of the manifest that run built from the tree, whatever the
\* file held before; a second run over the unchanged tree leaves the same
\* file.
C9_FreshFile ==
    pc = "done" =>
        /\ manifestFile = JsonDump(manifest)
        /\ TreeAsScanned => GenerateManifest(fs) = Returned(manifest)
        /\ lastSaved # NoFile => manifestFile = lastSaved

\* the second run, over the unchanged tree, of a repository that started
\* with a stale manifest.json and holds assets
C9_Witness ==
    /\ pc = "done"
    /\ runs = 2
    /\ lastSaved # NoFile
    /\ lastSaved # StaleFile
    /\ manifestFile = lastSaved
    /\ total_assets > 0

\* C10: manifest.json is written only after generate_manifest has returned
\* for all four categories; a run that an error ends (a category or
\* asset-type path that is no directory included) leaves manifest.json as
\* it was when the run started.
C10_WriteAfterScan ==
    /\ pc \in { "scan", "generated", "counted", "failed" } => manifestFile = fileAtStart
    /\ pc = "done" => Len(manifest) = Len(CATEGORIES)
    /\ (pc = "done" /\ TreeAsScanned) =>
           \A i \in 1..Len(CATEGORIES) :
               Exists(fs, CATEGORIES[i]) => IsDir(Child(fs, CATEGORIES[i]))
    /\ pc = "failed" => error # ""

\* the last category is a regular file: three categories were scanned, the
\* run failed and the stale manifest.json is still there
C10_Witness ==
    /\ pc = "failed"
    /\ error = "NotADirectoryError"
    /\ category_index = Len(CATEGORIES)
    /\ Len(manifest) = Len(CATEGORIES) - 1
    /\ manifestFile = StaleFile
    /\ runs = 1

=============================================================================
